---- MODULE Spec2Model ----
(***************************************************************************)
(* Gaming Twin Backend (src/main.py): the request handlers ingest_event    *)
(* (POST /events), update_threshold (POST /digital-twin/{id}/threshold),   *)
(* get_twin (GET /digital-twin/{id}) and get_report (GET /reports/{id})    *)
(* running concurrently, each in its own PostgreSQL transaction at the     *)
(* default READ COMMITTED isolation level.                                 *)
(*                                                                         *)
(* Committed store: the events ledger (a bag of rows) and the              *)
(* digital_twins table (a set of rows, unique on user_id only as far as    *)
(* the handlers' INSERT ... ON CONFLICT keeps it so).  A handler's         *)
(* uncommitted writes live in tx[p] and reach the store at its commit.     *)
(***************************************************************************)
EXTENDS Integers, FiniteSets, Sequences, Bags, TLC

\* ---------------------------------------------------------------- bounds
MaxCalls == 2          \* requests accepted in one behaviour

\* the request handlers that can be in flight at once
Procs == {"h1", "h2"}
Users == {"u1", "u2"}
Games == {"chess"}
\* GamingEvent.duration is any int: the boundary accepts negatives too.
Durations == {-1, 60, 61}
\* ThresholdUpdate.daily / .night values a caller supplies
DailyValues == {150}
NightValues == {40}
\* wall-clock times of day, in minutes since midnight, at the window's edges
Clock == {6 * 60, 6 * 60 + 1, 21 * 60 + 59, 22 * 60}

\* ------------------------------------------------------- optional values
\* Python None / SQL NULL is the empty sequence, a present value v is <<v>>.
None == << >>
Some(v) == << v >>
IsNone(x) == x = None
Get(x) == x[1]

\* ------------------------------------------------------------- constants
DefaultDaily == 120
DefaultNight == 60
ModerateAbove == 60
ExcessiveAbove == 120

DefaultThresholds == [daily |-> DefaultDaily, night |-> DefaultNight]
ZeroAggregates == [today_minutes |-> 0, weekly_minutes |-> 0, night_minutes |-> 0]

VARIABLES
    events,          \* committed rows of table events (a bag)
    digital_twins,   \* committed rows of table digital_twins (a set)
    pc,              \* each handler's position
    call,            \* the request each handler is serving
    aggregates,      \* ingest_event's local aggregates, after lines 85-106
    new_state,       \* ingest_event's local new_state
    now,             \* ingest_event's local now (minutes since midnight)
    thresholds,      \* update_threshold's local thresholds
    tx,              \* each handler's open transaction: its uncommitted writes
    result,          \* the response each handler last returned
    calls            \* requests accepted so far

vars == << events, digital_twins, pc, call, aggregates,
           new_state, now, thresholds, tx, result, calls >>

\* ------------------------------------------------------------ requests
Optional(S) == {None} \cup {Some(v) : v \in S}

\* GamingEvent bodies of POST /events
IngestCalls(D) ==
    [op : {"ingest_event"}, user_id : Users, game_name : Games,
     duration : D, daily : {None}, night : {None}]

\* ThresholdUpdate bodies of POST /digital-twin/{user_id}/threshold
ThresholdCalls ==
    [op : {"update_threshold"}, user_id : Users, game_name : {"-"},
     duration : {0}, daily : Optional(DailyValues), night : Optional(NightValues)]

\* GET /digital-twin/{user_id} and GET /reports/{user_id}
ReadCalls ==
    [op : {"get_twin", "get_report"}, user_id : Users, game_name : {"-"},
     duration : {0}, daily : {None}, night : {None}]

Requests == IngestCalls(Durations) \cup ThresholdCalls \cup ReadCalls

NoCall ==
    [op |-> "none", user_id |-> "-", game_name |-> "-", duration |-> 0,
     daily |-> None, night |-> None]

NoTx == [event |-> FALSE, twin |-> FALSE, update |-> FALSE]

\* A response.  The user_id and game a response echoes are those of call[p].
NoResult ==
    [status |-> "none", message |-> "-", today_minutes |-> 0,
     weekly_minutes |-> 0, state |-> "-", thresholds |-> None, body |-> None]

\* lines 141 / 171 / 213 / 262: the error envelope; the message tells the failed step
ErrorResult(at) == [NoResult EXCEPT !.status = "error", !.message = at]

\* ------------------------------------------------------- pure functions
\* line 104: now >= time(22, 0) or now <= time(6, 0)
IsNight(t) == t >= 22 * 60 \/ t <= 6 * 60

\* Classify with the cutoffs taken inclusively (>= for >).
ClassifyInclusive(today) ==
    IF today >= ExcessiveAbove THEN "Excessive"
    ELSE IF today >= ModerateAbove THEN "Moderate"
    ELSE "Healthy"

\* lines 109-114
Classify(today) ==
    IF today > ExcessiveAbove THEN "Excessive"
    ELSE IF today > ModerateAbove THEN "Moderate"
    ELSE "Healthy"

\* line 85-92: the aggregates column, NULL (or falsy) read as all-zero
LoadAggregates(col) == IF IsNone(col) THEN ZeroAggregates ELSE Get(col)

\* ApplyDuration with step 4b left out: weekly_minutes is not advanced.
ApplyDurationNoWeekly(agg, d, t) ==
    [today_minutes  |-> agg.today_minutes + d,
     weekly_minutes |-> agg.weekly_minutes,
     night_minutes  |-> IF IsNight(t) THEN agg.night_minutes + d
                        ELSE agg.night_minutes]

\* ApplyDuration with weekly_minutes advanced by the new today_minutes
\* instead of the duration.
ApplyDurationWeeklyFromToday(agg, d, t) ==
    [today_minutes  |-> agg.today_minutes + d,
     weekly_minutes |-> agg.weekly_minutes + (agg.today_minutes + d),
     night_minutes  |-> IF IsNight(t) THEN agg.night_minutes + d
                        ELSE agg.night_minutes]

\* lines 94-106: the new snapshot from the loaded one
ApplyDuration(agg, d, t) ==
    [today_minutes  |-> agg.today_minutes + d,
     weekly_minutes |-> agg.weekly_minutes + d,
     night_minutes  |-> IF IsNight(t) THEN agg.night_minutes + d
                        ELSE agg.night_minutes]

\* line 241: row[0] or {"daily": 120, "night": 60}
LoadThresholds(col) == IF IsNone(col) THEN DefaultThresholds ELSE Get(col)

\* lines 243-246: only the supplied fields are merged
MergeThresholds(thr, daily, night) ==
    [daily |-> IF IsNone(daily) THEN thr.daily ELSE Get(daily),
     night |-> IF IsNone(night) THEN thr.night ELSE Get(night)]

\* ------------------------------------------------------------ the store
\* The row INSERT INTO digital_twins (user_id) creates: the columns it omits
\* are NULL, which is what lines 85 and 241 provide for.
NewTwinRow(u) ==
    [user_id |-> u, thresholds |-> None, aggregates |-> None, state |-> None]

TwinRows(u) == {r \in digital_twins : r.user_id = u}

\* Another open transaction holds an uncommitted INSERT of u's twin row.
InsertPending(p, u) ==
    \E q \in Procs \ {p} : tx[q].twin /\ call[q].user_id = u

\* Another open transaction holds the row lock of an uncommitted UPDATE.
UpdatePending(p, u) ==
    \E q \in Procs \ {p} : tx[q].update /\ call[q].user_id = u

\* InsertsTwin without the conflict check: the insert always adds a row.
InsertsTwinUnchecked(u) == TRUE

\* INSERT ... ON CONFLICT (user_id) DO NOTHING: TRUE iff a row is inserted.
InsertsTwin(u) == TwinRows(u) = {}

\* The rows of u that p's statements see: committed ones, and its own insert.
VisibleRows(p, u) ==
    TwinRows(u) \cup (IF tx[p].twin THEN {NewTwinRow(u)} ELSE {})

\* cur.fetchone(): a row, or None
FetchOne(rows) == IF rows = {} THEN None ELSE Some(CHOOSE r \in rows : TRUE)

\* sum of the durations of u's committed ledger rows
RECURSIVE SumDurations(_, _)
SumDurations(B, S) ==
    IF S = {} THEN 0
    ELSE LET e == CHOOSE x \in S : TRUE
         IN  e.duration * B[e] + SumDurations(B, S \ {e})

LedgerMinutes(u) ==
    SumDurations(events, {e \in BagToSet(events) : e.user_id = u})

LedgerRows(u) ==
    LET S == {e \in BagToSet(events) : e.user_id = u}
        cnt[T \in SUBSET S] ==
            IF T = {} THEN 0
            ELSE LET e == CHOOSE x \in T : TRUE IN events[e] + cnt[T \ {e}]
    IN  cnt[S]

\* ---------------------------------------------------------------- Init
\* The store outlives the server: it is empty, or holds what one earlier
\* POST /events {u1, chess, 60}, processed at noon, has committed.
SeedEvent == [user_id |-> "u1", game_name |-> "chess", duration |-> 60]

SeedTwin ==
    LET agg == ApplyDuration(ZeroAggregates, SeedEvent.duration, 12 * 60)
    IN  [user_id |-> SeedEvent.user_id, thresholds |-> None,
         aggregates |-> Some(agg), state |-> Some(Classify(agg.today_minutes))]

Init ==
    /\ \E seeded \in BOOLEAN :
         /\ events = IF seeded THEN SetToBag({SeedEvent}) ELSE EmptyBag
         /\ digital_twins = IF seeded THEN {SeedTwin} ELSE {}
    /\ pc = [p \in Procs |-> "idle"]
    /\ call = [p \in Procs |-> NoCall]
    /\ aggregates = [p \in Procs |-> ZeroAggregates]
    /\ new_state = [p \in Procs |-> "-"]
    /\ now = [p \in Procs |-> 0]
    /\ thresholds = [p \in Procs |-> DefaultThresholds]
    /\ tx = [p \in Procs |-> NoTx]
    /\ result = [p \in Procs |-> NoResult]
    /\ calls = 0

\* The handler returns: its locals are gone.
ClearLocals(p) ==
    /\ aggregates' = [aggregates EXCEPT ![p] = ZeroAggregates]
    /\ new_state' = [new_state EXCEPT ![p] = "-"]
    /\ now' = [now EXCEPT ![p] = 0]
    /\ thresholds' = [thresholds EXCEPT ![p] = DefaultThresholds]

\* --------------------------------------------------- a request arrives
\* The first statement of the handler a request is routed to.
FirstStep(op) ==
    CASE op = "ingest_event" -> "insert_event"
      [] op = "update_threshold" -> "select_thresholds"
      [] op = "get_twin" -> "select_twin"
      [] op = "get_report" -> "select_report"

\* lines 57-58 / 220-221: connection and cursor; the transaction opens
\* with the first statement.
Accept(p, c) ==
    /\ pc[p] = "idle"
    /\ calls < MaxCalls
    /\ calls' = calls + 1
    /\ call' = [call EXCEPT ![p] = c]
    /\ pc' = [pc EXCEPT ![p] = FirstStep(c.op)]
    /\ result' = [result EXCEPT ![p] = NoResult]
    /\ UNCHANGED << events, digital_twins, aggregates,
                    new_state, now, thresholds, tx >>

\* ------------------------------------------------------- ingest_event
\* EventRow with the game_name column left to a placeholder.
EventRowNoGame(p) ==
    [user_id |-> call[p].user_id, game_name |-> "unknown",
     duration |-> call[p].duration]

\* The ledger row of p's request.
EventRow(p) ==
    [user_id |-> call[p].user_id, game_name |-> call[p].game_name,
     duration |-> call[p].duration]

\* InsertEvent on an autocommit connection: the row is committed at once.
InsertEventAutocommit(p) ==
    /\ pc[p] = "insert_event"
    /\ events' = events (+) SetToBag({EventRow(p)})
    /\ pc' = [pc EXCEPT ![p] = "ensure_twin"]
    /\ UNCHANGED << digital_twins, call, aggregates, new_state, now,
                    thresholds, tx, result, calls >>

\* lines 60-67: INSERT INTO events, uncommitted
InsertEvent(p) ==
    /\ pc[p] = "insert_event"
    /\ tx' = [tx EXCEPT ![p].event = TRUE]
    /\ pc' = [pc EXCEPT ![p] = "ensure_twin"]
    /\ UNCHANGED << events, digital_twins, call, aggregates,
                    new_state, now, thresholds, result, calls >>

\* lines 69-77: INSERT INTO digital_twins ... ON CONFLICT DO NOTHING.  It
\* waits while another transaction's insert of the same key is undecided.
EnsureTwin(p) ==
    /\ pc[p] = "ensure_twin"
    /\ ~InsertPending(p, call[p].user_id)
    /\ tx' = [tx EXCEPT ![p].twin = InsertsTwin(call[p].user_id)]
    /\ pc' = [pc EXCEPT ![p] = "select_aggregates"]
    /\ UNCHANGED << events, digital_twins, call, aggregates,
                    new_state, now, thresholds, result, calls >>

\* lines 79-114: SELECT aggregates (a fresh READ COMMITTED snapshot, no
\* lock), then the local computation of the new snapshot and state.
ReadAggregates(p) ==
    /\ pc[p] = "select_aggregates"
    /\ \E t \in Clock :
         LET row == FetchOne(VisibleRows(p, call[p].user_id))
             old == IF IsNone(row) THEN ZeroAggregates
                    ELSE LoadAggregates(Get(row).aggregates)
             new == ApplyDuration(old, call[p].duration, t)
         IN  /\ aggregates' = [aggregates EXCEPT ![p] = new]
             /\ now' = [now EXCEPT ![p] = t]
             /\ new_state' = [new_state EXCEPT ![p] = Classify(new.today_minutes)]
    /\ pc' = [pc EXCEPT ![p] = "update_twin"]
    /\ UNCHANGED << events, digital_twins, call, thresholds,
                    tx, result, calls >>

\* lines 116-126: UPDATE digital_twins SET aggregates, state.  It waits
\* for the row lock of another transaction's uncommitted UPDATE.
UpdateTwin(p) ==
    /\ pc[p] = "update_twin"
    /\ ~UpdatePending(p, call[p].user_id)
    /\ tx' = [tx EXCEPT ![p].update = TRUE]
    /\ pc' = [pc EXCEPT ![p] = "commit_event"]
    /\ UNCHANGED << events, digital_twins, call, aggregates,
                    new_state, now, thresholds, result, calls >>

\* SetAggregates as a rewrite of the whole row from the columns the handler
\* selected: thresholds, which it never read, goes back to NULL.
SetAggregatesWholeRow(p, r) ==
    [r EXCEPT !.aggregates = Some(aggregates[p]), !.state = Some(new_state[p]),
              !.thresholds = None]

\* lines 117-126: json.dumps of a dict of int counters and a text state; the
\* JSON column returns the same keys and integers on the next read.
SetAggregates(p, r) ==
    [r EXCEPT !.aggregates = Some(aggregates[p]), !.state = Some(new_state[p])]

SetThresholds(p, r) ==
    [r EXCEPT !.thresholds = Some(thresholds[p])]

\* p's UPDATE ... SET on one row: the columns of its handler, no others.
UpdateRow(p, r) ==
    IF call[p].op = "ingest_event" THEN SetAggregates(p, r) ELSE SetThresholds(p, r)

\* TwinsAfter with the UPDATE's WHERE clause left out: every row is rewritten.
TwinsAfterNoWhere(p) ==
    LET u == call[p].user_id
        rows == digital_twins \cup (IF tx[p].twin THEN {NewTwinRow(u)} ELSE {})
    IN  IF tx[p].update
        THEN {UpdateRow(p, r) : r \in rows}
        ELSE rows

\* The twins table once p's transaction is applied: its insert, then its
\* UPDATE ... WHERE user_id = u on the latest row versions.
TwinsAfter(p) ==
    LET u == call[p].user_id
        rows == digital_twins \cup (IF tx[p].twin THEN {NewTwinRow(u)} ELSE {})
    IN  IF tx[p].update
        THEN {IF r.user_id = u THEN UpdateRow(p, r) ELSE r : r \in rows}
        ELSE rows

\* lines 128-139: conn.commit() and the processed response
CommitEvent(p) ==
    /\ pc[p] = "commit_event"
    /\ events' = IF tx[p].event THEN events (+) SetToBag({EventRow(p)}) ELSE events
    /\ digital_twins' = TwinsAfter(p)
    /\ result' = [result EXCEPT ![p] =
                    [status |-> "processed", message |-> "-",
                     today_minutes |-> aggregates[p].today_minutes,
                     weekly_minutes |-> aggregates[p].weekly_minutes,
                     state |-> new_state[p],
                     thresholds |-> None, body |-> None]]
    /\ tx' = [tx EXCEPT ![p] = NoTx]
    /\ pc' = [pc EXCEPT ![p] = "idle"]
    /\ ClearLocals(p)
    /\ UNCHANGED << call, calls >>

\* --------------------------------------------------- update_threshold
\* lines 223-228, 240-246: SELECT thresholds; with a row, the merge
SelectThresholds(p) ==
    /\ pc[p] = "select_thresholds"
    /\ LET row == FetchOne(VisibleRows(p, call[p].user_id))
       IN  IF IsNone(row)
           THEN /\ pc' = [pc EXCEPT ![p] = "create_twin"]
                /\ UNCHANGED thresholds
           ELSE /\ pc' = [pc EXCEPT ![p] = "update_thresholds"]
                /\ thresholds' = [thresholds EXCEPT ![p] =
                      MergeThresholds(LoadThresholds(Get(row).thresholds),
                                      call[p].daily, call[p].night)]
    /\ UNCHANGED << events, digital_twins, call, aggregates,
                    new_state, now, tx, result, calls >>

\* lines 229-239, 243-246: no row was seen: INSERT ... ON CONFLICT DO
\* NOTHING, and the merge starts from the default thresholds.
CreateTwin(p) ==
    /\ pc[p] = "create_twin"
    /\ ~InsertPending(p, call[p].user_id)
    /\ tx' = [tx EXCEPT ![p].twin = InsertsTwin(call[p].user_id)]
    /\ thresholds' = [thresholds EXCEPT ![p] =
          MergeThresholds(DefaultThresholds, call[p].daily, call[p].night)]
    /\ pc' = [pc EXCEPT ![p] = "update_thresholds"]
    /\ UNCHANGED << events, digital_twins, call, aggregates,
                    new_state, now, result, calls >>

\* lines 248-255: UPDATE digital_twins SET thresholds
UpdateThresholds(p) ==
    /\ pc[p] = "update_thresholds"
    /\ ~UpdatePending(p, call[p].user_id)
    /\ tx' = [tx EXCEPT ![p].update = TRUE]
    /\ pc' = [pc EXCEPT ![p] = "commit_thresholds"]
    /\ UNCHANGED << events, digital_twins, call, aggregates,
                    new_state, now, thresholds, result, calls >>

\* lines 256-260: conn.commit() and the response
CommitThresholds(p) ==
    /\ pc[p] = "commit_thresholds"
    /\ digital_twins' = TwinsAfter(p)
    /\ result' = [result EXCEPT ![p] =
                    [NoResult EXCEPT !.status = "ok",
                                     !.thresholds = Some(thresholds[p])]]
    /\ tx' = [tx EXCEPT ![p] = NoTx]
    /\ pc' = [pc EXCEPT ![p] = "idle"]
    /\ ClearLocals(p)
    /\ UNCHANGED << events, call, calls >>

\* ------------------------------------------------ get_twin, get_report
\* lines 170 / 198: {"error": "User not found"}
NotFound == [NoResult EXCEPT !.status = "not_found"]

\* lines 163-168: the row as selected, NULL columns as null
TwinBody(row) ==
    [user_id |-> row.user_id, thresholds |-> row.thresholds,
     aggregates |-> row.aggregates, state |-> row.state]

\* ReportBody with .get(..., 0) for the thresholds too.
ReportBodyZeroDefaults(u, row) ==
    LET thr == IF IsNone(row.thresholds) THEN [daily |-> 0, night |-> 0]
               ELSE Get(row.thresholds)
        agg == IF IsNone(row.aggregates) THEN ZeroAggregates
               ELSE Get(row.aggregates)
    IN  [user_id |-> u,
         today_minutes |-> agg.today_minutes,
         weekly_minutes |-> agg.weekly_minutes,
         night_minutes |-> agg.night_minutes,
         state |-> row.state,
         daily_threshold |-> thr.daily,
         night_threshold |-> thr.night]

\* lines 200-211: row[0] or {}, row[1] or {}, and the .get defaults
ReportBody(u, row) ==
    LET thr == IF IsNone(row.thresholds)
               THEN [daily |-> DefaultDaily, night |-> DefaultNight]
               ELSE Get(row.thresholds)
        agg == IF IsNone(row.aggregates) THEN ZeroAggregates
               ELSE Get(row.aggregates)
    IN  [user_id |-> u,
         today_minutes |-> agg.today_minutes,
         weekly_minutes |-> agg.weekly_minutes,
         night_minutes |-> agg.night_minutes,
         state |-> row.state,
         daily_threshold |-> thr.daily,
         night_threshold |-> thr.night]

\* lines 148-170: SELECT, fetchone, close, and the response; no commit
GetTwin(p) ==
    /\ pc[p] = "select_twin"
    /\ LET row == FetchOne(VisibleRows(p, call[p].user_id))
       IN  result' = [result EXCEPT ![p] =
               IF IsNone(row) THEN NotFound
               ELSE [NoResult EXCEPT !.status = "found",
                                     !.body = Some(TwinBody(Get(row)))]]
    /\ pc' = [pc EXCEPT ![p] = "idle"]
    /\ UNCHANGED << events, digital_twins, call, aggregates,
                    new_state, now, thresholds, tx, calls >>

\* lines 182-211
GetReport(p) ==
    /\ pc[p] = "select_report"
    /\ LET row == FetchOne(VisibleRows(p, call[p].user_id))
       IN  result' = [result EXCEPT ![p] =
               IF IsNone(row) THEN NotFound
               ELSE [NoResult EXCEPT !.status = "found",
                       !.body = Some(ReportBody(call[p].user_id, Get(row)))]]
    /\ pc' = [pc EXCEPT ![p] = "idle"]
    /\ UNCHANGED << events, digital_twins, call, aggregates,
                    new_state, now, thresholds, tx, calls >>

\* ------------------------------------------------------------ failure
\* Fail with the connection left open: the transaction is never rolled back
\* and keeps its uncommitted insert and its row lock.
FailKeepsTransaction(p) ==
    /\ pc[p] # "idle"
    /\ result' = [result EXCEPT ![p] = ErrorResult(pc[p])]
    /\ pc' = [pc EXCEPT ![p] = "idle"]
    /\ ClearLocals(p)
    /\ UNCHANGED << events, digital_twins, call, tx, calls >>

\* lines 140-141 / 170-171 / 212-213 / 261-262: any statement (or the commit) raises; the
\* handler returns the error envelope, its connection is dropped without a
\* commit and the server rolls the transaction back.
Fail(p) ==
    /\ pc[p] # "idle"
    /\ result' = [result EXCEPT ![p] = ErrorResult(pc[p])]
    /\ tx' = [tx EXCEPT ![p] = NoTx]
    /\ pc' = [pc EXCEPT ![p] = "idle"]
    /\ ClearLocals(p)
    /\ UNCHANGED << events, digital_twins, call, calls >>

\* ---------------------------------------------------------------- Next
\* The statements that wait for another transaction: the two inserts of
\* the twin row and the two UPDATEs.
Acquire(p) ==
    \/ EnsureTwin(p)
    \/ CreateTwin(p)
    \/ UpdateTwin(p)
    \/ UpdateThresholds(p)

\* The next statement of p's handler runs.
Progress(p) ==
    \/ InsertEvent(p)
    \/ EnsureTwin(p)
    \/ ReadAggregates(p)
    \/ UpdateTwin(p)
    \/ CommitEvent(p)
    \/ SelectThresholds(p)
    \/ CreateTwin(p)
    \/ UpdateThresholds(p)
    \/ CommitThresholds(p)
    \/ GetTwin(p)
    \/ GetReport(p)

Step(p) ==
    \/ Progress(p)
    \/ Fail(p)

Next ==
    \/ \E p \in Procs : \E c \in Requests : Accept(p, c)
    \/ \E p \in Procs : Step(p)

Spec == Init /\ [][Next]_vars

\* Callers that send one user's requests of a kind one after another: a
\* request is accepted only when no other request to the same handler for
\* the same user is in flight.
Overlaps(p, c) ==
    \E q \in Procs \ {p} :
        pc[q] # "idle" /\ call[q].op = c.op /\ call[q].user_id = c.user_id

NextSequential ==
    \/ \E p \in Procs : \E c \in Requests : ~Overlaps(p, c) /\ Accept(p, c)
    \/ \E p \in Procs : Step(p)

SpecSequential == Init /\ [][NextSequential]_vars

\* Callers that send only events with duration >= 0.
NextNonNegative ==
    \/ \E p \in Procs :
         \E c \in IngestCalls(Durations \cap Nat) \cup ThresholdCalls \cup ReadCalls :
             Accept(p, c)
    \/ \E p \in Procs : Step(p)

SpecNonNegative == Init /\ [][NextNonNegative]_vars

\* Callers that play two games: the events differ in game_name as well as
\* in user and duration.
GameNames == {"chess", "doom"}

LedgerCalls ==
    {[c EXCEPT !.game_name = g] : c \in IngestCalls({60, 61}), g \in GameNames}

NextLedger ==
    \/ \E p \in Procs :
         \E c \in LedgerCalls \cup ThresholdCalls \cup ReadCalls : Accept(p, c)
    \/ \E p \in Procs : Step(p)

SpecLedger == Init /\ [][NextLedger]_vars

\* The handlers keep running and the store grants a waiting statement its
\* lock: a handler whose next statement can run runs it (or fails), and a
\* statement that waits for a lock is not passed over for ever.  Failures
\* are possible but nothing makes them happen: no fairness is put on Fail,
\* so a call that could only end by failing would stay in flight.  The requests carry one
\* duration and one threshold field: waiting depends on neither.
FairCalls ==
    IngestCalls({60})
      \cup {c \in ThresholdCalls : c.daily # None /\ c.night = None}
      \cup ReadCalls

NextFair ==
    \/ \E p \in Procs : \E c \in FairCalls : Accept(p, c)
    \/ \E p \in Procs : Step(p)

SpecFair ==
    /\ Init
    /\ [][NextFair]_vars
    /\ \A p \in Procs : WF_vars(Progress(p)) /\ SF_vars(Acquire(p))

\* ------------------------------------------------- reading the store
\* The committed twin of u as a reader sees it: NULL aggregates count as
\* zero and NULL thresholds as the defaults; no row reads the same.
StoredAggregates(u) ==
    IF TwinRows(u) = {} THEN ZeroAggregates
    ELSE LoadAggregates((CHOOSE r \in TwinRows(u) : TRUE).aggregates)

StoredThresholds(u) ==
    IF TwinRows(u) = {} THEN DefaultThresholds
    ELSE LoadThresholds((CHOOSE r \in TwinRows(u) : TRUE).thresholds)

InFlight(p) == pc[p] # "idle"

IngestInFlight(u) ==
    \E p \in Procs :
        InFlight(p) /\ call[p].op = "ingest_event" /\ call[p].user_id = u

\* ---------------------------------------------------------------- C1
\* C1: once every ingest_event for a user has committed, the persisted
\* today_minutes is the baseline plus the sum of all committed durations,
\* that is the sum of the durations of the user's ledger rows: no event is
\* dropped and none counted twice, in every interleaving.
C1_NoLostUpdate ==
    \A u \in Users :
        ~IngestInFlight(u) => StoredAggregates(u).today_minutes = LedgerMinutes(u)

\* ---------------------------------------------------------------- C2
\* C2: when one user's events are applied one after another, the persisted
\* today_minutes and weekly_minutes both equal the sum of the durations of
\* the events applied so far.
C2_SequentialAdditivity ==
    \A u \in Users :
        ~IngestInFlight(u) =>
            /\ StoredAggregates(u).today_minutes = LedgerMinutes(u)
            /\ StoredAggregates(u).weekly_minutes = LedgerMinutes(u)

\* Two events, 60 then 61, applied in turn to the never-seen user u2.
C2_Witness ==
    /\ \A p \in Procs : ~InFlight(p)
    /\ LedgerRows("u2") = 2
    /\ StoredAggregates("u2").today_minutes = 121
    /\ StoredAggregates("u2").weekly_minutes = 121

\* ---------------------------------------------------------------- C3
\* C3: every twin with at least one committed ingest_event (a ledger row of
\* its user) has the state the fixed cutoffs give its persisted
\* today_minutes: Excessive above 120, Moderate above 60 up to 120, Healthy
\* up to 60, whatever thresholds are configured.
C3_StateMatchesFixedCutoffs ==
    \A u \in Users :
        LedgerRows(u) > 0 =>
            /\ TwinRows(u) # {}
            /\ \A r \in TwinRows(u) :
                 LET today == LoadAggregates(r.aggregates).today_minutes
                 IN  r.state = Some(IF today > 120 THEN "Excessive"
                                    ELSE IF today > 60 THEN "Moderate"
                                    ELSE "Healthy")

\* today_minutes = 121 is Excessive although the configured daily threshold
\* is 150.
C3_Witness ==
    \E r \in digital_twins :
        /\ r.aggregates # None /\ Get(r.aggregates).today_minutes = 121
        /\ r.state = Some("Excessive")
        /\ r.thresholds # None /\ Get(r.thresholds).daily = 150

\* ---------------------------------------------------------------- C4
\* C4: no step of an ingest_event before its commit changes the committed
\* store, and the step in which it fails leaves the committed ledger and
\* twins as they are, returns the error envelope and ends the call with
\* nothing pending: there is no retry.
C4_FailureLeavesStoreUnchanged ==
    [][\A p \in Procs :
         (call[p].op = "ingest_event" /\ InFlight(p) /\ pc'[p] # pc[p]
            /\ result'[p].status # "processed")
         => /\ events' = events
            /\ digital_twins' = digital_twins
            /\ (result'[p].status = "error" =>
                  /\ pc'[p] = "idle"
                  /\ tx'[p] = NoTx
                  /\ calls' = calls)]_vars

\* An ingest_event failed at its commit, every write staged, and the store
\* is still empty.
C4_Witness ==
    \E p \in Procs :
        /\ call[p].op = "ingest_event"
        /\ result[p].status = "error" /\ result[p].message = "commit_event"
        /\ events = EmptyBag /\ digital_twins = {}

\* ---------------------------------------------------------------- C6
\* C6: a user_id never has more than one twin row, it has exactly one once
\* a call for it has committed, and the call that created the row worked
\* from all-zero aggregates and the default thresholds {120, 60}.
C6_OneTwinWithDefaults ==
    /\ \A u \in Users : Cardinality(TwinRows(u)) <= 1
    /\ \A p \in Procs :
         /\ result[p].status \in {"processed", "ok"}
              => Cardinality(TwinRows(call[p].user_id)) = 1
         /\ (tx[p].twin /\ pc[p] \in {"update_twin", "commit_event"})
              => /\ aggregates[p].today_minutes = call[p].duration
                 /\ aggregates[p].weekly_minutes = call[p].duration
                 /\ aggregates[p].night_minutes \in {0, call[p].duration}
         /\ (tx[p].twin /\ pc[p] \in {"update_thresholds", "commit_thresholds"})
              => /\ thresholds[p].daily =
                      (IF call[p].daily = None THEN 120 ELSE Get(call[p].daily))
                 /\ thresholds[p].night =
                      (IF call[p].night = None THEN 60 ELSE Get(call[p].night))

\* Two first calls for the never-seen u2 ran concurrently: one committed the
\* row, the other has passed its own insert and is about to update.
C6_Witness ==
    \E p, q \in Procs :
        /\ p # q
        /\ call[p].user_id = "u2" /\ call[q].user_id = "u2"
        /\ result[p].status \in {"processed", "ok"}
        /\ pc[q] \in {"update_twin", "update_thresholds"}
        /\ Cardinality(TwinRows("u2")) = 1

\* ---------------------------------------------------------------- C5
\* C5: the commit of an ingest_event raises the persisted night_minutes by
\* exactly the event's duration if the wall-clock time of its processing is
\* >= 22:00 or <= 06:00, and leaves it unchanged otherwise.
C5_NightAttribution ==
    [][\A p \in Procs :
         (pc[p] = "commit_event" /\ result'[p].status = "processed")
         => StoredAggregates(call[p].user_id)'.night_minutes =
               StoredAggregates(call[p].user_id).night_minutes
               + (IF now[p] >= 22 * 60 \/ now[p] <= 6 * 60
                  THEN call[p].duration ELSE 0)]_vars

\* ---------------------------------------------------------------- C7
\* C7: the commit of an update_threshold sets exactly the supplied fields of
\* the persisted thresholds, leaves each omitted field at its prior value
\* (the default when there was none), and returns what it persisted.
C7_PartialUpdate ==
    [][\A p \in Procs :
         (pc[p] = "commit_thresholds" /\ result'[p].status = "ok")
         => /\ StoredThresholds(call[p].user_id)'.daily =
                 (IF call[p].daily = None
                  THEN StoredThresholds(call[p].user_id).daily
                  ELSE Get(call[p].daily))
            /\ StoredThresholds(call[p].user_id)'.night =
                 (IF call[p].night = None
                  THEN StoredThresholds(call[p].user_id).night
                  ELSE Get(call[p].night))
            /\ result'[p].thresholds = Some(StoredThresholds(call[p].user_id)')]_vars

\* ---------------------------------------------------------------- C8
\* C8: when the only two calls are update_threshold calls for one user, one
\* supplying only daily and the other only night, then after both have
\* committed the persisted thresholds hold both new values.
C8_BothFieldsKept ==
    \A p, q \in Procs :
        (/\ p # q /\ calls = 2
         /\ ~InFlight(p) /\ ~InFlight(q)
         /\ result[p].status = "ok" /\ result[q].status = "ok"
         /\ call[p].user_id = call[q].user_id
         /\ call[p].daily # None /\ call[p].night = None
         /\ call[q].daily = None /\ call[q].night # None)
        => StoredThresholds(call[p].user_id) =
              [daily |-> Get(call[p].daily), night |-> Get(call[q].night)]

\* ---------------------------------------------------------------- C9
\* C9: with every event's duration >= 0, no step lowers a user's persisted
\* today_minutes, weekly_minutes or night_minutes.
C9_CountersNeverDecrease ==
    [][\A u \in Users :
         /\ StoredAggregates(u)'.today_minutes >= StoredAggregates(u).today_minutes
         /\ StoredAggregates(u)'.weekly_minutes >= StoredAggregates(u).weekly_minutes
         /\ StoredAggregates(u)'.night_minutes >= StoredAggregates(u).night_minutes]_vars

\* --------------------------------------------------------------- C10
\* C10: every twin's today_minutes, weekly_minutes and night_minutes are
\* >= 0 in every reachable state, for every event the boundary accepts.
C10_CountersNonNegative ==
    \A u \in Users :
        /\ StoredAggregates(u).today_minutes >= 0
        /\ StoredAggregates(u).weekly_minutes >= 0
        /\ StoredAggregates(u).night_minutes >= 0

\* --------------------------------------------------------------- C11
\* C11: a step of a call for one user leaves every other user's twin row
\* unchanged, and leaves unchanged everything a call for another user reads
\* or waits for: the rows it sees, the pending inserts and the row locks it
\* waits on, and its own position, locals and open transaction.  So the
\* calls on a user u run the same, and leave the same final twin of u,
\* whatever calls on other users are interleaved with them.
C11_OtherUsersUntouched ==
    [][\A q \in Procs : \A u \in Users :
         (pc'[q] # pc[q] /\ call'[q].user_id # u)
         => /\ TwinRows(u)' = TwinRows(u)
            /\ \A p \in Procs \ {q} :
                 call[p].user_id = u
                 => /\ VisibleRows(p, u)' = VisibleRows(p, u)
                    /\ InsertPending(p, u)' = InsertPending(p, u)
                    /\ UpdatePending(p, u)' = UpdatePending(p, u)
                    /\ pc'[p] = pc[p] /\ tx'[p] = tx[p]
                    /\ aggregates'[p] = aggregates[p]
                    /\ thresholds'[p] = thresholds[p]]_vars

\* u2 has had an event and a threshold update committed while the twin of
\* u1 is still the row the earlier event left.
C11_Witness ==
    /\ TwinRows("u1") = {SeedTwin}
    /\ \E r \in TwinRows("u2") : r.aggregates # None /\ r.thresholds # None
    /\ \A p \in Procs : result[p].status \in {"processed", "ok"}

\* --------------------------------------------------------------- C12
\* C12: no step of a get_twin or get_report changes the committed ledger or
\* twins or leaves anything pending; the step in which it answers from its
\* SELECT returns not-found exactly when no twin row of the user is
\* committed, and a get_report that finds a twin whose thresholds are unset
\* reports daily_threshold = 120 and night_threshold = 60.
C12_PureReads ==
    [][\A p \in Procs :
         (call'[p].op \in {"get_twin", "get_report"} /\ pc'[p] # pc[p])
         => /\ events' = events
            /\ digital_twins' = digital_twins
            /\ tx'[p] = NoTx
            /\ (pc'[p] = "idle" /\ result'[p].status # "error")
                 => /\ result'[p].status \in {"found", "not_found"}
                    /\ result'[p].status = "not_found"
                          <=> TwinRows(call[p].user_id) = {}
                    /\ (/\ call[p].op = "get_report"
                        /\ \E r \in TwinRows(call[p].user_id) : r.thresholds = None)
                       => /\ Get(result'[p].body).daily_threshold = 120
                          /\ Get(result'[p].body).night_threshold = 60]_vars

\* A report of u1, whose twin an event created and no threshold update has
\* touched, and a read of u2, which has no twin.
C12_Witness ==
    \E p, q \in Procs :
        /\ call[p].op = "get_report" /\ call[p].user_id = "u1"
        /\ result[p].status = "found"
        /\ Get(result[p].body).daily_threshold = 120
        /\ Get(result[p].body).today_minutes = 60
        /\ \A r \in TwinRows("u1") : r.thresholds = None
        /\ call[q].op = "get_twin" /\ call[q].user_id = "u2"
        /\ result[q].status = "not_found"
        /\ TwinRows("u2") = {}

\* --------------------------------------------------------------- C13
\* C13: no step of an ingest_event changes any twin's thresholds and no step
\* of an update_threshold changes any twin's aggregates or state; and when
\* the only two calls are an ingest_event and an update_threshold for one
\* user, then after both have committed the twin holds the aggregates and
\* state the event returned together with the thresholds the update
\* returned, in every interleaving.
C13_DisjointColumns ==
    /\ [][\A p \in Procs : \A u \in Users :
            pc'[p] # pc[p]
            => /\ call'[p].op = "ingest_event"
                  => /\ StoredThresholds(u)' = StoredThresholds(u)
                     /\ \A r \in TwinRows(u) : \A r2 \in TwinRows(u)' :
                            r2.thresholds = r.thresholds
               /\ call'[p].op = "update_threshold"
                  => /\ StoredAggregates(u)' = StoredAggregates(u)
                     /\ \A r \in TwinRows(u) : \A r2 \in TwinRows(u)' :
                            r2.aggregates = r.aggregates /\ r2.state = r.state]_vars
    /\ [](\A p, q \in Procs :
            (/\ p # q /\ calls = 2
             /\ ~InFlight(p) /\ ~InFlight(q)
             /\ call[p].op = "ingest_event" /\ result[p].status = "processed"
             /\ call[q].op = "update_threshold" /\ result[q].status = "ok"
             /\ call[p].user_id = call[q].user_id)
            => \A r \in TwinRows(call[p].user_id) :
                 /\ r.aggregates # None
                 /\ Get(r.aggregates).today_minutes = result[p].today_minutes
                 /\ Get(r.aggregates).weekly_minutes = result[p].weekly_minutes
                 /\ r.state = Some(result[p].state)
                 /\ r.thresholds = result[q].thresholds)

\* An event of 61 minutes and a threshold update {150, 40} for u1 have both
\* committed, in either order and with any overlap: both are in the row.
C13_Witness ==
    \E p, q \in Procs :
        /\ call[p].op = "ingest_event" /\ result[p].status = "processed"
        /\ call[q].op = "update_threshold" /\ result[q].status = "ok"
        /\ call[p].user_id = "u1" /\ call[q].user_id = "u1"
        /\ \E r \in TwinRows("u1") :
              /\ r.aggregates # None
              /\ Get(r.aggregates).today_minutes = 121
              /\ r.state = Some("Excessive")
              /\ r.thresholds = Some([daily |-> 150, night |-> 40])

\* --------------------------------------------------------------- C14
\* C14: the step in which an ingest_event commits and returns processed adds
\* to the committed ledger exactly one row, carrying the call's user_id,
\* game_name and duration, and no other step of any call adds, removes or
\* alters a ledger row; so the ledger rows of a user are always as many as
\* that user's committed ingest_event calls.
C14_LedgerInStep ==
    [][\A p \in Procs :
         pc'[p] # pc[p]
         => IF call[p].op = "ingest_event" /\ result'[p].status = "processed"
            THEN LET row == [user_id |-> call[p].user_id,
                             game_name |-> call[p].game_name,
                             duration |-> call[p].duration]
                 IN  /\ events' = events (+) SetToBag({row})
                     /\ LedgerRows(call[p].user_id)' = LedgerRows(call[p].user_id) + 1
                     /\ \A u \in Users \ {call[p].user_id} :
                            LedgerRows(u)' = LedgerRows(u)
            ELSE events' = events]_vars

\* Two processed events of u2 that differ in game and duration: two ledger
\* rows, one for each.
C14_Witness ==
    /\ \A p \in Procs : result[p].status = "processed" /\ call[p].user_id = "u2"
    /\ LedgerRows("u2") = 2
    /\ CopiesIn([user_id |-> "u2", game_name |-> "chess", duration |-> 60], events) = 1
    /\ CopiesIn([user_id |-> "u2", game_name |-> "doom", duration |-> 61], events) = 1

\* --------------------------------------------------------------- C15
\* C15: in every reachable committed state, concurrent ingest_event calls
\* included, every twin's weekly_minutes equals its today_minutes, and the
\* twin of a user all of whose events had duration >= 0 has night_minutes <=
\* today_minutes.
C15_WeeklyEqualsToday ==
    \A u \in Users :
        /\ StoredAggregates(u).weekly_minutes = StoredAggregates(u).today_minutes
        /\ \A r \in TwinRows(u) :
              r.aggregates # None
              => Get(r.aggregates).weekly_minutes = Get(r.aggregates).today_minutes
        /\ (\A e \in BagToSet(events) : e.user_id = u => e.duration >= 0)
           => StoredAggregates(u).night_minutes <= StoredAggregates(u).today_minutes

\* Two events of u1, the second of 61 minutes processed at night while
\* another call for u1 is still in flight: today = weekly = 121, night = 61.
C15_Witness ==
    /\ StoredAggregates("u1") =
          [today_minutes |-> 121, weekly_minutes |-> 121, night_minutes |-> 61]
    /\ LedgerRows("u1") = 2
    /\ \E p \in Procs : InFlight(p) /\ call[p].user_id = "u1"
                          /\ call[p].op = "ingest_event"

\* --------------------------------------------------------------- C16
\* C16: with handlers that keep running and a store that grants row locks
\* fairly, every ingest_event and update_threshold call in flight, on the
\* same user as another or not, eventually returns a processed (ok for
\* update_threshold) or error result without failures having to happen: no
\* calls wait for ever on each other's uncommitted twin insert or row
\* update.
C16_EveryCallFinishes ==
    \A p \in Procs :
        (InFlight(p) /\ call[p].op \in {"ingest_event", "update_threshold"})
        ~> (/\ ~InFlight(p)
            /\ result[p].status \in {"processed", "ok", "error"})

\* A call for u2 waits at its insert of the twin row for another call that
\* holds the uncommitted insert of that row and the lock of its update.
C16_Witness ==
    \E p, q \in Procs :
        /\ p # q
        /\ call[p].user_id = "u2" /\ call[q].user_id = "u2"
        /\ pc[p] \in {"ensure_twin", "create_twin"}
        /\ tx[q].twin /\ tx[q].update
        /\ InsertPending(p, "u2")

====
